---------------------------- MODULE Spec2Model ----------------------------
(***************************************************************************)
(* Model of the image-normalisation batch scripts of images_giant_booster: *)
(*   make_square.py             (pad, square, resize, border; in place)    *)
(*   update_images_and_csv.py   (same pipeline + cache-buster, timestamp   *)
(*                               rename, patch of lego_parts2.csv)         *)
(*                                                                         *)
(* Text is modelled as sequences of one-character strings, images as       *)
(* records [mode, width, height, data] with data[row][col] a tuple of      *)
(* channel values (numpy's (height, width, channel) layout, 0-based rows   *)
(* and columns).                                                           *)
(***************************************************************************)
EXTENDS Integers, Sequences, FiniteSets, TLC

(***************************************************************************)
(* Bounds of the model.                                                    *)
(***************************************************************************)
MaxDim == 3          \* source images are 1..MaxDim pixels wide and high
MaxBorder == 3       \* border widths 0..MaxBorder given to add_border_pattern
MaxSrcDim == 2       \* make_image_square: source images up to MaxSrcDim square
MaxPad == 1          \* make_image_square: padding 0..MaxPad
MaxFinal == 3        \* make_image_square: final_size 1..MaxFinal
StartTime == 123     \* time.time() when the run starts
MaxTicks == 1        \* seconds that may pass during the run

(***************************************************************************)
(* Program constants.                                                      *)
(***************************************************************************)
DefaultTolerance == 10
DefaultBorderWidth == 2
DefaultPadding == 20
DefaultFinalSize == 256
BackgroundColor == <<255, 255, 221>>
PatternColor == <<220, 220, 190>>

Min(a, b) == IF a < b THEN a ELSE b
Max(a, b) == IF a > b THEN a ELSE b

(***************************************************************************)
(* Images.                                                                 *)
(***************************************************************************)
Rows(image) == 0 .. image.height - 1
Cols(image) == 0 .. image.width - 1

\* Image.new('RGB', (w, h), color)
NewImage(w, h, color) ==
    [mode |-> "RGB", width |-> w, height |-> h,
     data |-> [r \in 0 .. h - 1 |-> [c \in 0 .. w - 1 |-> color]]]

\* image.convert('RGB'): grey is replicated on the three channels, an alpha
\* channel is dropped.
ConvertPixelRGB(mode, px) ==
    CASE mode = "RGB"  -> px
      [] mode = "RGBA" -> <<px[1], px[2], px[3]>>
      [] mode = "L"    -> <<px[1], px[1], px[1]>>
      [] mode = "LA"   -> <<px[1], px[1], px[1]>>

ConvertRGB(image) ==
    [mode |-> "RGB", width |-> image.width, height |-> image.height,
     data |-> [r \in Rows(image) |-> [c \in Cols(image) |->
                  ConvertPixelRGB(image.mode, image.data[r][c])]]]

\* Python slice bounds: a[:k] stops at SliceIndex(k, n), a[k:] starts there.
SliceIndex(k, n) == IF k < 0 THEN Max(k + n, 0) ELSE Min(k, n)

\* The pixel satisfies the white mask: every channel >= 255 - tolerance.
WhiteMask(px, tolerance) ==
    /\ px[1] >= 255 - tolerance
    /\ px[2] >= 255 - tolerance
    /\ px[3] >= 255 - tolerance

WhiteMaskAnyChannel(px, tolerance) ==
    \/ px[1] >= 255 - tolerance
    \/ px[2] >= 255 - tolerance
    \/ px[3] >= 255 - tolerance

replace_white_backgroundWide(image, target_color, tolerance) ==
    LET rgb == IF image.mode # "RGB" THEN ConvertRGB(image) ELSE image
    IN  [rgb EXCEPT !.data = [r \in Rows(rgb) |-> [c \in Cols(rgb) |->
            IF WhiteMask(rgb.data[r][c], tolerance + 5)
            THEN target_color ELSE rgb.data[r][c]]]]

replace_white_backgroundAny(image, target_color, tolerance) ==
    LET rgb == IF image.mode # "RGB" THEN ConvertRGB(image) ELSE image
    IN  [rgb EXCEPT !.data = [r \in Rows(rgb) |-> [c \in Cols(rgb) |->
            IF WhiteMaskAnyChannel(rgb.data[r][c], tolerance)
            THEN target_color ELSE rgb.data[r][c]]]]

replace_white_background(image, target_color, tolerance) ==
    LET rgb == IF image.mode # "RGB" THEN ConvertRGB(image) ELSE image
    IN  [rgb EXCEPT !.data = [r \in Rows(rgb) |-> [c \in Cols(rgb) |->
            IF WhiteMask(rgb.data[r][c], tolerance)
            THEN target_color ELSE rgb.data[r][c]]]]

\* One corner: channel ch (0-based) of pixel (r, c) is incremented unless it
\* is 255, and then decremented; the arithmetic is numpy's uint8.
BumpWrap(data, r, c, ch) ==
    [data EXCEPT ![r][c][ch + 1] = (@ + 1) % 256]

Bump(data, r, c, ch) ==
    [data EXCEPT ![r][c][ch + 1] =
        IF @ < 255 THEN (@ + 1) % 256 ELSE (@ + 255) % 256]

add_cache_buster_pixels(image) ==
    LET rgb == IF image.mode # "RGB" THEN ConvertRGB(image) ELSE image
        width == rgb.width
        height == rgb.height
        a1 == Bump(rgb.data, 0, 0, 0)
        a2 == Bump(a1, 0, width - 1, 1)
        a3 == Bump(a2, height - 1, 0, 2)
        a4 == Bump(a3, height - 1, width - 1, 0)
    IN  [rgb EXCEPT !.data = a4]

\* img_array[:b, :], img_array[-b:, :], img_array[:, :b], img_array[:, -b:]
InBorder(r, c, height, width, b) ==
    \/ r < SliceIndex(b, height)
    \/ r >= SliceIndex(0 - b, height)
    \/ c < SliceIndex(b, width)
    \/ c >= SliceIndex(0 - b, width)

add_border_pattern(image, border_width, pattern_color) ==
    LET rgb == IF image.mode # "RGB" THEN ConvertRGB(image) ELSE image
    IN  [rgb EXCEPT !.data = [r \in Rows(rgb) |-> [c \in Cols(rgb) |->
            IF InBorder(r, c, rgb.height, rgb.width, border_width)
            THEN pattern_color ELSE rgb.data[r][c]]]]

(***************************************************************************)
(* Text: a str is a sequence of one-character strings.                     *)
(***************************************************************************)
Alphabet ==
    <<"+", "-", ".", "/", "0", "1", "2", "3", "4", "5", "6", "7", "8", "9",
      "?", "A", "B", "C", "D", "E", "F", "G", "H", "I", "J", "K", "L", "M",
      "N", "O", "P", "Q", "R", "S", "T", "U", "V", "W", "X", "Y", "Z", "_",
      "a", "b", "c", "d", "e", "f", "g", "h", "i", "j", "k", "l", "m", "n",
      "o", "p", "q", "r", "s", "t", "u", "v", "w", "x", "y", "z">>

UpperCase == 
    <<"A", "B", "C", "D", "E", "F", "G", "H", "I", "J", "K", "L", "M", "N",
      "O", "P", "Q", "R", "S", "T", "U", "V", "W", "X", "Y", "Z">>
LowerCase == 
    <<"a", "b", "c", "d", "e", "f", "g", "h", "i", "j", "k", "l", "m", "n",
      "o", "p", "q", "r", "s", "t", "u", "v", "w", "x", "y", "z">>

\* ord(c), as the position in the ASCII-ordered alphabet of the model
Ord(c) == CHOOSE i \in 1 .. Len(Alphabet) : Alphabet[i] = c

IndexIn(c, letters) ==
    IF \E i \in 1 .. Len(letters) : letters[i] = c
    THEN CHOOSE i \in 1 .. Len(letters) : letters[i] = c
    ELSE 0

\* s.lower(), s.upper()
Lower(s) ==
    [i \in 1 .. Len(s) |->
        IF IndexIn(s[i], UpperCase) > 0 THEN LowerCase[IndexIn(s[i], UpperCase)] ELSE s[i]]
Upper(s) ==
    [i \in 1 .. Len(s) |->
        IF IndexIn(s[i], LowerCase) > 0 THEN UpperCase[IndexIn(s[i], LowerCase)] ELSE s[i]]

\* s < t, the order list.sort() puts strings in
RECURSIVE StrLess(_, _)
StrLess(s, t) ==
    IF t = <<>> THEN FALSE
    ELSE IF s = <<>> THEN TRUE
    ELSE IF s[1] # t[1] THEN Ord(s[1]) < Ord(t[1])
    ELSE StrLess(Tail(s), Tail(t))

\* t occurs in s at position i (1-based)
OccursAt(s, t, i) ==
    /\ i >= 1
    /\ i + Len(t) - 1 <= Len(s)
    /\ SubSeq(s, i, i + Len(t) - 1) = t

\* t in s
Contains(s, t) == \E i \in 1 .. Len(s) + 1 : OccursAt(s, t, i)

EndsWith(s, t) == Len(t) <= Len(s) /\ OccursAt(s, t, Len(s) - Len(t) + 1)

\* s.find(t, from): the first position >= from where t occurs, 0 when none
Find(s, t, from) ==
    IF \E i \in from .. Len(s) + 1 : OccursAt(s, t, i)
    THEN CHOOSE i \in from .. Len(s) + 1 :
            OccursAt(s, t, i) /\ \A j \in from .. i - 1 : ~OccursAt(s, t, j)
    ELSE 0

\* s.rfind(t): the last position where t occurs, 0 when none
RFind(s, t) ==
    IF Contains(s, t)
    THEN CHOOSE i \in 1 .. Len(s) + 1 :
            OccursAt(s, t, i) /\ \A j \in i + 1 .. Len(s) + 1 : ~OccursAt(s, t, j)
    ELSE 0

\* s.replace(old, new) for a non-empty old: the occurrences found scanning
\* from the left, none overlapping an earlier one, are all replaced.
RECURSIVE ReplaceFrom(_, _, _, _)
ReplaceFrom(s, old, new, from) ==
    LET j == Find(s, old, from)
    IN  IF j = 0 THEN SubSeq(s, from, Len(s))
        ELSE SubSeq(s, from, j - 1) \o new \o ReplaceFrom(s, old, new, j + Len(old))

RECURSIVE Interleave(_, _)
Interleave(s, new) ==
    IF s = <<>> THEN new ELSE new \o <<s[1]>> \o Interleave(Tail(s), new)

ReplaceFirstOnly(s, old, new) ==
    LET j == Find(s, old, 1)
    IN  IF old = <<>> \/ j = 0 THEN s
        ELSE SubSeq(s, 1, j - 1) \o new \o SubSeq(s, j + Len(old), Len(s))

StrReplace(s, old, new) ==
    IF old = <<>> THEN Interleave(s, new) ELSE ReplaceFrom(s, old, new, 1)

\* s.split(sep)[-1] for a non-empty sep: what follows the last separator
RECURSIVE LastPieceFrom(_, _, _)
LastPieceFrom(s, sep, from) ==
    LET j == Find(s, sep, from)
    IN  IF j = 0 THEN SubSeq(s, from, Len(s))
        ELSE LastPieceFrom(s, sep, j + Len(sep))

SplitLast(s, sep) == LastPieceFrom(s, sep, 1)

\* str(n) for n >= 0
Digits == <<"0", "1", "2", "3", "4", "5", "6", "7", "8", "9">>
RECURSIVE Str(_)
Str(n) == IF n < 10 THEN <<Digits[n + 1]>> ELSE Str(n \div 10) \o <<Digits[(n % 10) + 1]>>

\* int(s): an optional sign and decimal digits; anything else raises ValueError
IsDigits(s) == s # <<>> /\ \A i \in 1 .. Len(s) : IndexIn(s[i], Digits) > 0
RECURSIVE DigitsValue(_)
DigitsValue(s) ==
    IF s = <<>> THEN 0
    ELSE 10 * DigitsValue(SubSeq(s, 1, Len(s) - 1)) + (IndexIn(s[Len(s)], Digits) - 1)
IsInt(s) ==
    \/ IsDigits(s)
    \/ s # <<>> /\ s[1] \in {"+", "-"} /\ IsDigits(Tail(s))
Int_(s) ==
    IF s[1] = "-" THEN 0 - DigitsValue(Tail(s))
    ELSE IF s[1] = "+" THEN DigitsValue(Tail(s))
    ELSE DigitsValue(s)

\* os.path.basename, os.path.dirname, os.path.join
Basename(path) == SplitLast(path, <<"/">>)
Dirname(path) == SubSeq(path, 1, RFind(path, <<"/">>) - 1)
Join(dir, name) == dir \o <<"/">> \o name

\* os.path.splitext on a basename: the extension starts at the last dot,
\* unless only dots come before it.
SplitExt(name) ==
    LET dot == RFind(name, <<".">>)
    IN  IF dot > 0 /\ \E k \in 1 .. dot - 1 : name[k] # "."
        THEN <<SubSeq(name, 1, dot - 1), SubSeq(name, dot, Len(name))>>
        ELSE <<name, <<>> >>

(***************************************************************************)
(* Input images of the model: every size up to MaxDim x MaxDim, every      *)
(* pixel of one colour except one pixel of a second colour, the colours    *)
(* drawn from a palette that holds the values on both sides of the         *)
(* thresholds of the code (245 = 255 - 10, 255, 0).                        *)
(***************************************************************************)
Palette ==
    { <<255, 255, 255>>, <<245, 245, 245>>, <<244, 255, 255>>,
      <<255, 245, 244>>, <<240, 240, 240>>, <<0, 0, 0>>, <<254, 255, 0>> }

Tolerances == {0, DefaultTolerance, 15}

SpottedImages(mode, pixels, maxdim) ==
    { [mode |-> mode, width |-> w, height |-> h,
       data |-> [r \in 0 .. h - 1 |-> [c \in 0 .. w - 1 |->
                    IF r = sr /\ c = sc THEN a ELSE b]]] :
        w \in 1 .. maxdim, h \in 1 .. maxdim,
        sr \in 0 .. maxdim - 1, sc \in 0 .. maxdim - 1,
        a \in pixels, b \in pixels }

VARIABLES
    pin,     \* the image a pixel function was given
    pout,    \* the image it returned
    pcall,   \* the call made: [fn, arg] (arg: tolerance or border_width)
    src,     \* make_image_square: the file at image_path
    sarg,    \* make_image_square: the arguments of the call
    spc,     \* make_image_square: position in the function
    snorm,   \* make_image_square: img once in RGB, then with white replaced
    spad,    \* make_image_square: padded_img
    simg,    \* make_image_square: square_img
    sout,    \* make_image_square: the file written at the output path
    sret,    \* make_image_square: the value returned
    script,  \* the script run: "make_square" or "update"
    pc,      \* main: position in the script
    dir,     \* main: current_dir
    fs,      \* the files: path -> content
    fs0,     \* the files when the run started (history)
    clock,   \* int(time.time())
    padding, add_border, add_cache_buster, create_backup,   \* the answers
    image_files,       \* the sorted list of image paths
    idx,               \* the loop position in image_files (1-based)
    success_count,
    filename_mapping,  \* old filename -> new filename
    attempts,          \* the calls of make_image_square: [file, ok] (history)
    backups,           \* make_square.py: names saved under backup_original
    cpc,               \* update_csv_file: position
    rows,              \* update_csv_file: the rows read
    url_column_index,  \* update_csv_file: 0-based, -1 for None
    updates_count,
    cret               \* update_csv_file: the value returned

pixelVars == <<pin, pout, pcall>>
squareVars == <<src, sarg, spc, snorm, spad, simg, sout, sret>>

mainVars ==
    <<script, pc, dir, fs, fs0, clock, padding, add_border, add_cache_buster,
      create_backup, image_files, idx, success_count, filename_mapping,
      attempts, backups>>
csvVars == <<cpc, rows, url_column_index, updates_count, cret>>

vars == <<pixelVars, squareVars, mainVars, csvVars>>

NoCall == [fn |-> "none", arg |-> 0]

NoImage == [mode |-> "none", width |-> 0, height |-> 0, data |-> <<>>]
NoArgs == [script |-> "none", padding |-> 0, final_size |-> 0,
           add_border |-> FALSE, add_cache_buster |-> FALSE]
NoFile == [format |-> "none", width |-> 0, height |-> 0]

IdlePixel == pin = NoImage /\ pout = NoImage /\ pcall = NoCall
IdleSquare ==
    /\ src = NoImage /\ sarg = NoArgs /\ spc = "idle" /\ snorm = NoImage
    /\ spad = NoImage /\ simg = NoImage /\ sout = NoFile /\ sret = "none"

IdleMain ==
    /\ script = "none" /\ pc = "idle" /\ dir = <<>> /\ fs = <<>> /\ fs0 = <<>>
    /\ clock = 0 /\ padding = 0 /\ add_border = FALSE /\ add_cache_buster = FALSE
    /\ create_backup = FALSE /\ image_files = <<>> /\ idx = 0
    /\ success_count = 0 /\ filename_mapping = <<>> /\ attempts = <<>>
    /\ backups = {}
    /\ cpc = "idle" /\ rows = <<>> /\ url_column_index = -1
    /\ updates_count = 0 /\ cret = "none"

InitPixel ==
    /\ pin \in SpottedImages("RGB", Palette, MaxDim)
    /\ pout = pin
    /\ pcall = NoCall
    /\ IdleSquare
    /\ IdleMain

CallReplaceWhite ==
    /\ pcall = NoCall
    /\ \E t \in Tolerances :
        /\ pout' = replace_white_background(pin, BackgroundColor, t)
        /\ pcall' = [fn |-> "replace_white_background", arg |-> t]
    /\ UNCHANGED <<pin, squareVars, mainVars, csvVars>>

CallCacheBuster ==
    /\ pcall = NoCall
    /\ pout' = add_cache_buster_pixels(pin)
    /\ pcall' = [fn |-> "add_cache_buster_pixels", arg |-> 0]
    /\ UNCHANGED <<pin, squareVars, mainVars, csvVars>>

CallBorder ==
    /\ pcall = NoCall
    /\ \E b \in 0 .. MaxBorder :
        /\ pout' = add_border_pattern(pin, b, PatternColor)
        /\ pcall' = [fn |-> "add_border_pattern", arg |-> b]
    /\ UNCHANGED <<pin, squareVars, mainVars, csvVars>>

NextPixel ==
    \/ CallReplaceWhite
    \/ CallCacheBuster
    \/ CallBorder

SpecPixel == InitPixel /\ [][NextPixel]_vars


(***************************************************************************)
(* make_image_square (both scripts).                                       *)
(***************************************************************************)
\* canvas.paste(img, (x, y))
Paste(canvas, img, x, y) ==
    [canvas EXCEPT !.data = [r \in Rows(canvas) |-> [c \in Cols(canvas) |->
        IF (r - y) \in Rows(img) /\ (c - x) \in Cols(img)
        THEN img.data[r - y][c - x] ELSE canvas.data[r][c]]]]

\* background.paste(img, mask=img.split()[-1]): the last band is the alpha
\* mask; the model's alpha values are 0 (the background shows) and 255 (the
\* source pixel is copied).
PasteMask(canvas, img) ==
    [canvas EXCEPT !.data = [r \in Rows(canvas) |-> [c \in Cols(canvas) |->
        LET px == img.data[r][c]
        IN  IF px[Len(px)] = 255
            THEN ConvertPixelRGB(img.mode, px) ELSE canvas.data[r][c]]]]

\* The colour-mode block at the head of make_image_square. A palette image is
\* held with its palette entries resolved, so convert('RGBA') keeps the data.
NormalizeMode(img, background_color) ==
    IF img.mode \in {"RGBA", "LA", "P"}
    THEN LET background == NewImage(img.width, img.height, background_color)
             rgba == IF img.mode = "P" THEN [img EXCEPT !.mode = "RGBA"] ELSE img
         IN  PasteMask(background, rgba)
    ELSE IF img.mode # "RGB" THEN ConvertRGB(img) ELSE img

PaddedImageOneSide(img, pad, background_color) ==
    Paste(NewImage(img.width + pad, img.height + pad, background_color),
          img, pad, pad)

PaddedImage(img, pad, background_color) ==
    LET padded_width == img.width + (2 * pad)
        padded_height == img.height + (2 * pad)
        padded_img == NewImage(padded_width, padded_height, background_color)
    IN  Paste(padded_img, img, pad, pad)

SquareImageTopLeft(img, background_color) ==
    LET max_size == Max(img.width, img.height)
    IN  IF img.width = img.height THEN img
        ELSE Paste(NewImage(max_size, max_size, background_color), img, 0, 0)

SquareImage(img, background_color) ==
    LET width == img.width
        height == img.height
        max_size == Max(width, height)
    IN  IF width = height
        THEN img
        ELSE LET square_img == NewImage(max_size, max_size, background_color)
                 paste_x == (max_size - width) \div 2
                 paste_y == (max_size - height) \div 2
             IN  Paste(square_img, img, paste_x, paste_y)

\* square_img.resize((fw, fh), LANCZOS). The size of the result is what the
\* code fixes; the filter's pixel values are stood in for by the nearest
\* source sample.
Resize(img, fw, fh) ==
    [mode |-> img.mode, width |-> fw, height |-> fh,
     data |-> [r \in 0 .. fh - 1 |-> [c \in 0 .. fw - 1 |->
                  img.data[(r * img.height) \div fh][(c * img.width) \div fw]]]]

ResizedImageWidthOnly(square_img, final_size) ==
    IF square_img.width # final_size
    THEN Resize(square_img, final_size, square_img.height)
    ELSE square_img

ResizedImage(square_img, final_size) ==
    IF <<square_img.width, square_img.height>> # <<final_size, final_size>>
    THEN Resize(square_img, final_size, final_size)
    ELSE square_img

\* square_img.save(path, 'JPEG', quality=95): the file holds a lossy encoding,
\* of which the model keeps the format and the size.
SavedFile(img) == [format |-> "JPEG", width |-> img.width, height |-> img.height]

CorruptFile == [mode |-> "corrupt", width |-> 0, height |-> 0, data |-> <<>>]

\* The source of the padding example: 100 x 60, one colour.
ExampleImage == NewImage(100, 60, <<10, 20, 30>>)

SourcePixels(mode) ==
    CASE mode = "RGB"  -> { <<10, 20, 30>>, <<255, 255, 255>>, <<250, 250, 250>> }
      [] mode = "RGBA" -> { <<10, 20, 30, 255>>, <<10, 20, 30, 0>>, <<255, 255, 255, 255>> }
      [] mode = "P"    -> { <<10, 20, 30, 255>>, <<40, 50, 60, 0>> }
      [] mode = "L"    -> { <<0>>, <<250>> }
      [] mode = "LA"   -> { <<0, 255>>, <<0, 0>>, <<250, 255>> }

SourceImages ==
    UNION { SpottedImages(m, SourcePixels(m), MaxSrcDim) :
                m \in {"RGB", "RGBA", "P", "L", "LA"} }

Flags(which) ==
    IF which = "make_square"
    THEN { [add_border |-> b, add_cache_buster |-> FALSE] : b \in BOOLEAN }
    ELSE { [add_border |-> b, add_cache_buster |-> k] : b \in BOOLEAN, k \in BOOLEAN }

\* The arguments a call is given: the defaults (padding 20, final_size 256,
\* both markers) for the example image, small values for the small images.
Arguments(image) ==
    IF image = ExampleImage
    THEN { [script |-> s, padding |-> DefaultPadding, final_size |-> DefaultFinalSize,
            add_border |-> TRUE, add_cache_buster |-> (s = "update")] :
                s \in {"make_square", "update"} }
    ELSE UNION { { [script |-> s, padding |-> p, final_size |-> f,
                    add_border |-> fl.add_border,
                    add_cache_buster |-> fl.add_cache_buster] :
                        p \in 0 .. MaxPad, f \in 1 .. MaxFinal, fl \in Flags(s) } :
                 s \in {"make_square", "update"} }

InitSquare ==
    /\ src \in SourceImages \cup {CorruptFile, ExampleImage}
    /\ sarg = NoArgs
    /\ spc = "start"
    /\ snorm = NoImage /\ spad = NoImage /\ simg = NoImage
    /\ sout = NoFile
    /\ sret = "none"
    /\ IdlePixel
    /\ IdleMain

\* Image.open raises on a file that is no image: the except clause returns False.
OpenFails ==
    /\ spc = "start"
    /\ src.mode = "corrupt"
    /\ \E a \in Arguments(src) : sarg' = a
    /\ spc' = "failed"
    /\ sret' = "False"
    /\ UNCHANGED <<src, snorm, spad, simg, sout, pixelVars, mainVars, csvVars>>

Open ==
    /\ spc = "start"
    /\ src.mode # "corrupt"
    /\ \E a \in Arguments(src) : sarg' = a
    /\ snorm' = NormalizeMode(src, BackgroundColor)
    /\ spc' = "opened"
    /\ UNCHANGED <<src, spad, simg, sout, sret, pixelVars, mainVars, csvVars>>

StepReplaceWhite ==
    /\ spc = "opened"
    /\ snorm' = replace_white_background(snorm, BackgroundColor, DefaultTolerance)
    /\ spc' = "whitened"
    /\ UNCHANGED <<src, sarg, spad, simg, sout, sret, pixelVars, mainVars, csvVars>>

StepPad ==
    /\ spc = "whitened"
    /\ spad' = PaddedImage(snorm, sarg.padding, BackgroundColor)
    /\ spc' = "padded"
    /\ UNCHANGED <<src, sarg, snorm, simg, sout, sret, pixelVars, mainVars, csvVars>>

StepSquare ==
    /\ spc = "padded"
    /\ simg' = SquareImage(spad, BackgroundColor)
    /\ spc' = "squared"
    /\ UNCHANGED <<src, sarg, snorm, spad, sout, sret, pixelVars, mainVars, csvVars>>

StepResize ==
    /\ spc = "squared"
    /\ simg' = ResizedImage(simg, sarg.final_size)
    /\ spc' = "resized"
    /\ UNCHANGED <<src, sarg, snorm, spad, sout, sret, pixelVars, mainVars, csvVars>>

\* The two markers; make_square.py has no cache-buster.
StepMark ==
    /\ spc = "resized"
    /\ LET bordered == IF sarg.add_border
                       THEN add_border_pattern(simg, DefaultBorderWidth, PatternColor)
                       ELSE simg
       IN  simg' = IF sarg.script = "update" /\ sarg.add_cache_buster
                   THEN add_cache_buster_pixels(bordered)
                   ELSE bordered
    /\ spc' = "marked"
    /\ UNCHANGED <<src, sarg, snorm, spad, sout, sret, pixelVars, mainVars, csvVars>>

StepSave ==
    /\ spc = "marked"
    /\ sout' = SavedFile(simg)
    /\ sret' = "True"
    /\ spc' = "saved"
    /\ UNCHANGED <<src, sarg, snorm, spad, simg, pixelVars, mainVars, csvVars>>

\* save raises (the path cannot be written): caught, False is returned.
StepSaveFails ==
    /\ spc = "marked"
    /\ sret' = "False"
    /\ spc' = "failed"
    /\ UNCHANGED <<src, sarg, snorm, spad, simg, sout, pixelVars, mainVars, csvVars>>

NextSquare ==
    \/ OpenFails
    \/ Open
    \/ StepReplaceWhite
    \/ StepPad
    \/ StepSquare
    \/ StepResize
    \/ StepMark
    \/ StepSave
    \/ StepSaveFails

SpecSquare == InitSquare /\ [][NextSquare]_vars

(***************************************************************************)
(* Files, and the strings the scripts hold.                                *)
(***************************************************************************)
\* 'lego_parts2.csv'
CsvName ==
    <<"l", "e", "g", "o", "_", "p", "a", "r", "t", "s", "2", ".", "c", "s",
      "v">>
\* 'images_giant_booster/'
UrlMarker ==
    <<"i", "m", "a", "g", "e", "s", "_", "g", "i", "a", "n", "t", "_", "b",
      "o", "o", "s", "t", "e", "r", "/">>
\* '.csv' and '_backup.csv'
CsvSuffix == <<".", "c", "s", "v">>
BackupSuffix ==
    <<"_", "b", "a", "c", "k", "u", "p", ".", "c", "s", "v">>
\* 'url' and 'bricklink'
UrlWord == <<"u", "r", "l">>
BricklinkWord ==
    <<"b", "r", "i", "c", "k", "l", "i", "n", "k">>
\* ['*.jpg', '*.jpeg', '*.png', '*.bmp', '*.tiff', '*.webp']
image_extensions ==
    << <<"*", ".", "j", "p", "g">>, <<"*", ".", "j", "p", "e", "g">>,
       <<"*", ".", "p", "n", "g">>, <<"*", ".", "b", "m", "p">>,
       <<"*", ".", "t", "i", "f", "f">>, <<"*", ".", "w", "e", "b", "p">> >>

\* The content of a file: an image (decodable or not, of some size, already
\* normalised or not), the catalog (its rows of fields and its line ends), or
\* anything else.
ImageFile(good, w, h, square) ==
    [kind |-> "image", good |-> good, width |-> w, height |-> h,
     square |-> square, rows |-> <<>>, eol |-> "none"]
CsvFile(csvrows, eol) ==
    [kind |-> "csv", good |-> FALSE, width |-> 0, height |-> 0,
     square |-> FALSE, rows |-> csvrows, eol |-> eol]
TextFile ==
    [kind |-> "text", good |-> FALSE, width |-> 0, height |-> 0,
     square |-> FALSE, rows |-> <<>>, eol |-> "none"]

Exists(files, path) == path \in DOMAIN files

\* open(path, 'w') ... write, and image.save(path): the file holds content
WriteFile(files, path, content) ==
    [q \in DOMAIN files \cup {path} |-> IF q = path THEN content ELSE files[q]]

\* os.remove(path)
RemoveFile(files, path) == [q \in DOMAIN files \ {path} |-> files[q]]

CopyFileNothing(files, source, target) == files

\* shutil.copy2(source, target), the target's directory existing
CopyFile(files, source, target) == WriteFile(files, target, files[source])

\* glob.glob(os.path.join(folder, pattern)) for a pattern '*<suffix>': the
\* entries of the folder itself whose name ends with the suffix, the case of
\* the letters compared as it is, names that start with a dot left out.
Glob(files, folder, pattern) ==
    { q \in DOMAIN files :
        /\ Dirname(q) = folder
        /\ Basename(q)[1] # "."
        /\ EndsWith(Basename(q), Tail(pattern)) }

\* the two globs of every extension, as a set (list(set(image_files)))
GlobAll(files, folder) ==
    UNION { Glob(files, folder, image_extensions[k])
                \cup Glob(files, folder, Upper(image_extensions[k])) :
            k \in 1 .. Len(image_extensions) }

\* image_files.sort()
RECURSIVE Sorted(_)
Sorted(S) ==
    IF S = {} THEN <<>>
    ELSE LET m == CHOOSE x \in S : \A y \in S \ {x} : StrLess(x, y)
         IN  <<m>> \o Sorted(S \ {m})

\* generate_new_filename, with the int(time.time()) it reads
generate_new_filename(original_filename, timestamp) ==
    LET name == SplitExt(original_filename)[1]
        ext == SplitExt(original_filename)[2]
    IN  name \o <<"_">> \o Str(timestamp) \o ext

\* Whether make_image_square(image_file, ..., padding=p) returns True: the
\* file decodes and both padded sides are sizes Image.new accepts.
ImageSucceedsAlways(files, image_file, p) == TRUE

ImageSucceeds(files, image_file, p) ==
    /\ Exists(files, image_file)
    /\ files[image_file].kind = "image"
    /\ files[image_file].good
    /\ files[image_file].width + 2 * p >= 0
    /\ files[image_file].height + 2 * p >= 0

\* The file make_image_square writes: final_size x final_size, JPEG.
SquareFile == ImageFile(TRUE, DefaultFinalSize, DefaultFinalSize, TRUE)

(***************************************************************************)
(* update_csv_file.                                                        *)
(***************************************************************************)
\* open(csv_path, 'r', encoding='utf-8'): the file is read with universal
\* newlines, so '\r\n' and '\r' reach csv.reader as '\n', inside a quoted
\* field too.
CR == "\r"
LF == "\n"
UniversalNewlines(text) ==
    StrReplace(StrReplace(text, <<CR, LF>>, <<LF>>), <<CR>>, <<LF>>)

\* list(csv.reader(file)): the rows of fields of the file, as they are read
csv_reader(file) ==
    [k \in 1 .. Len(file.rows) |->
        [i \in 1 .. Len(file.rows[k]) |-> UniversalNewlines(file.rows[k][i])]]

IsUrlHeader(column_name) ==
    \/ Contains(Lower(column_name), UrlWord)
    \/ Contains(Lower(column_name), BricklinkWord)

FindUrlColumnOrFirst(header) ==
    IF \E i \in 1 .. Len(header) : IsUrlHeader(header[i])
    THEN (CHOOSE i \in 1 .. Len(header) :
            IsUrlHeader(header[i]) /\ \A j \in 1 .. i - 1 : ~IsUrlHeader(header[j])) - 1
    ELSE 0

\* the first column whose lower-cased name contains 'url' or 'bricklink',
\* 0-based; -1 stands for None
FindUrlColumn(header) ==
    IF \E i \in 1 .. Len(header) : IsUrlHeader(header[i])
    THEN (CHOOSE i \in 1 .. Len(header) :
            IsUrlHeader(header[i]) /\ \A j \in 1 .. i - 1 : ~IsUrlHeader(header[j])) - 1
    ELSE -1

\* Whether the loop body rewrites the row
RowMatches(row, index, mapping) ==
    /\ Len(row) > index
    /\ Contains(row[index + 1], UrlMarker)
    /\ SplitLast(row[index + 1], UrlMarker) \in DOMAIN mapping

PatchRow(row, index, mapping) ==
    IF RowMatches(row, index, mapping)
    THEN LET old_url == row[index + 1]
             old_filename == SplitLast(old_url, UrlMarker)
             new_filename == mapping[old_filename]
             new_url == StrReplace(old_url, old_filename, new_filename)
         IN  [row EXCEPT ![index + 1] = new_url]
    ELSE row

PatchRowsFirstOnly(allrows, index, mapping) ==
    [k \in 1 .. Len(allrows) |->
        IF k = 1 \/ \E j \in 2 .. k - 1 : RowMatches(allrows[j], index, mapping)
        THEN allrows[k] ELSE PatchRow(allrows[k], index, mapping)]

\* for row in rows[1:]
PatchRows(allrows, index, mapping) ==
    [k \in 1 .. Len(allrows) |->
        IF k = 1 THEN allrows[k] ELSE PatchRow(allrows[k], index, mapping)]

CountUpdates(allrows, index, mapping) ==
    Cardinality({ k \in 2 .. Len(allrows) : RowMatches(allrows[k], index, mapping) })

csv_path == Join(dir, CsvName)
backup_path == StrReplace(csv_path, CsvSuffix, BackupSuffix)

(***************************************************************************)
(* The directories, files and answers the runs of the model start from.    *)
(***************************************************************************)
Dirs == { <<"/", "d">>, <<"/", "d", ".", "c", "s", "v">> }

\* 'a.jpg', 'a_123.jpg' (the name a.jpg gets at time 123), '8.png', 'n.txt'
FileA == <<"a", ".", "j", "p", "g">>
FileA123 == <<"a", "_", "1", "2", "3", ".", "j", "p", "g">>
File8 == <<"8", ".", "p", "n", "g">>
ImageNames == { FileA, FileA123, File8 }
TextName == <<"n", ".", "t", "x", "t">>

GoodImage == ImageFile(TRUE, 100, 60, FALSE)
BadImage == ImageFile(FALSE, 0, 0, FALSE)

\* 'b.Jpg', an image whose extension is written in mixed case, and 's/a.jpg',
\* an image of a subdirectory
FileMixed == <<"b", ".", "J", "p", "g">>
SubFile == <<"s", "/", "a", ".", "j", "p", "g">>

\* What every directory holds beside the images the run is after.
Bystanders(d) ==
    [q \in {Join(d, TextName), Join(d, FileMixed), Join(d, SubFile)} |->
        IF q = Join(d, TextName) THEN TextFile ELSE GoodImage]

\* A directory: any of the image names, a.jpg and 8.png decodable or not, a
\* text file, an image with a mixed-case extension and an image one level down.
Directories(d) ==
    UNION { { [q \in {Join(d, n) : n \in present} \cup DOMAIN Bystanders(d) |->
                 IF q \in DOMAIN Bystanders(d) THEN Bystanders(d)[q]
                 ELSE c[Basename(q)]] :
              c \in { f \in [present -> {GoodImage, BadImage}] :
                        FileA123 \in present => f[FileA123] = GoodImage } } :
            present \in SUBSET ImageNames }

Headers ==
    { << <<"i", "d">>, <<"U", "R", "L">> >>,
      << <<"i", "d">>, <<"B", "r", "i", "c", "k", "L", "i", "n", "k">> >>,
      << <<"i", "d">>, <<"l", "i", "n", "k">> >>,
      << <<"c", "u", "r", "l">>, <<"u", "r", "l">> >> }

\* The data rows of the catalogs: the URL of a.jpg, a.jpg outside the image
\* folder, a.jpg with a query, a short row, the URL of 8.png, a.jpg in the
\* first column, a.jpg twice in one URL, the URL of a_123.jpg, a quoted
\* field of two lines.
Host == <<"h", "/">>
UrlOf(name) == Host \o UrlMarker \o name
DataRows ==
    << << <<"1">>, UrlOf(FileA) >>,
       << <<"2">>, Host \o FileA >>,
       << <<"3">>, UrlOf(FileA) \o <<"?", "v">> >>,
       << <<"4">> >>,
       << <<"5">>, UrlOf(File8) >>,
       << FileA, <<"x">> >>,
       << <<"7">>, FileA \o <<"/">> \o UrlMarker \o FileA >>,
       << <<"8">>, UrlOf(FileA123) >>,
       << <<"9", "\r", "\n", "9">>, <<"u">> >> >>

\* The catalogs: an empty file, and every header over the data rows, the
\* lines ended '\n'; one is also there with its lines ended '\r\n'.
Catalogs ==
    { CsvFile(<<>>, "LF") }
        \cup { CsvFile(<<h>> \o DataRows, "LF") : h \in Headers }
        \cup { CsvFile(<< << <<"i", "d">>, <<"U", "R", "L">> >> >> \o DataRows, "CRLF") }

\* the answers, once stripped (and lower-cased, for the yes/no questions)
YesNoAnswers == {"", "n", "no", "non", "o", "oui", "y", "yes"}
No == {"n", "non", "no"}
Yes == {"o", "oui", "y", "yes"}
PaddingAnswers == { <<>>, <<"x">>, <<"-", "5">>, <<"7", "x">> }

InitMainVars ==
    /\ fs0 = fs
    /\ clock = StartTime
    /\ padding = 0 /\ add_border = FALSE /\ add_cache_buster = FALSE
    /\ create_backup = FALSE
    /\ image_files = <<>> /\ idx = 0 /\ success_count = 0
    /\ filename_mapping = <<>> /\ attempts = <<>> /\ backups = {}
    /\ cpc = "idle" /\ rows = <<>> /\ url_column_index = -1
    /\ updates_count = 0 /\ cret = "none"

InitUpdate ==
    /\ script = "update"
    /\ pc = "u_start"
    /\ dir \in Dirs
    /\ \E files \in Directories(dir) :
        \/ fs = files
        \/ \E cat \in Catalogs : fs = WriteFile(files, Join(dir, CsvName), cat)
    /\ InitMainVars

InitMakeSquare ==
    /\ script = "make_square"
    /\ pc = "m_border"
    /\ dir \in Dirs
    /\ fs \in Directories(dir)
    /\ InitMainVars

Init ==
    /\ InitUpdate \/ InitMakeSquare
    /\ IdlePixel
    /\ IdleSquare

(***************************************************************************)
(* update_images_and_csv.py: main.                                         *)
(***************************************************************************)
others == <<pixelVars, squareVars>>

\* if not os.path.exists(csv_path): return
UNoCsv ==
    /\ pc = "u_start"
    /\ ~Exists(fs, csv_path)
    /\ pc' = "no_csv"
    /\ UNCHANGED <<script, dir, fs, fs0, clock, padding, add_border,
                   add_cache_buster, create_backup, image_files, idx,
                   success_count, filename_mapping, attempts, backups,
                   csvVars, others>>

UCsvFound ==
    /\ pc = "u_start"
    /\ Exists(fs, csv_path)
    /\ pc' = "u_padding"
    /\ UNCHANGED <<script, dir, fs, fs0, clock, padding, add_border,
                   add_cache_buster, create_backup, image_files, idx,
                   success_count, filename_mapping, attempts, backups,
                   csvVars, others>>

\* padding = int(response) if response else 20
UPadding ==
    /\ pc = "u_padding"
    /\ \E response \in PaddingAnswers :
        /\ response = <<>> \/ IsInt(response)
        /\ padding' = IF response = <<>> THEN DefaultPadding ELSE Int_(response)
    /\ pc' = "u_border"
    /\ UNCHANGED <<script, dir, fs, fs0, clock, add_border,
                   add_cache_buster, create_backup, image_files, idx,
                   success_count, filename_mapping, attempts, backups,
                   csvVars, others>>

\* int(response) raises ValueError, which nothing catches: the run ends
UPaddingValueError ==
    /\ pc = "u_padding"
    /\ \E response \in PaddingAnswers : response # <<>> /\ ~IsInt(response)
    /\ pc' = "crashed"
    /\ UNCHANGED <<script, dir, fs, fs0, clock, padding, add_border,
                   add_cache_buster, create_backup, image_files, idx,
                   success_count, filename_mapping, attempts, backups,
                   csvVars, others>>

UBorder ==
    /\ pc = "u_border"
    /\ \E response \in YesNoAnswers : add_border' = (response \notin No)
    /\ pc' = "u_cache"
    /\ UNCHANGED <<script, dir, fs, fs0, clock, padding,
                   add_cache_buster, create_backup, image_files, idx,
                   success_count, filename_mapping, attempts, backups,
                   csvVars, others>>

UCacheBuster ==
    /\ pc = "u_cache"
    /\ \E response \in YesNoAnswers : add_cache_buster' = (response \notin No)
    /\ pc' = "u_confirm"
    /\ UNCHANGED <<script, dir, fs, fs0, clock, padding, add_border,
                   create_backup, image_files, idx,
                   success_count, filename_mapping, attempts, backups,
                   csvVars, others>>

UConfirm ==
    /\ pc = "u_confirm"
    /\ \E response \in YesNoAnswers :
        pc' = IF response \in No THEN "cancelled" ELSE "u_glob"
    /\ UNCHANGED <<script, dir, fs, fs0, clock, padding, add_border,
                   add_cache_buster, create_backup, image_files, idx,
                   success_count, filename_mapping, attempts, backups,
                   csvVars, others>>

\* the file list, sorted; the run ends when it is empty
UGlob ==
    /\ pc = "u_glob"
    /\ image_files' = Sorted(GlobAll(fs, dir))
    /\ pc' = IF image_files' = <<>> THEN "no_images" ELSE "u_loop"
    /\ idx' = 1
    /\ UNCHANGED <<script, dir, fs, fs0, clock, padding, add_border,
                   add_cache_buster, create_backup,
                   success_count, filename_mapping, attempts, backups,
                   csvVars, others>>

NextIndexStopOnFailure(i, ok) == IF ok THEN i + 1 ELSE Len(image_files) + 1

\* for image_file in image_files: the next position
NextIndex(i, ok) == i + 1

\* one pass of the loop of main
UProcessFile ==
    /\ pc = "u_loop"
    /\ idx <= Len(image_files)
    /\ \E now \in clock .. Min(clock + 1, StartTime + MaxTicks) :
        LET image_file == image_files[idx]
            old_filename == Basename(image_file)
            new_filename == generate_new_filename(old_filename, now)
            new_filepath == Join(dir, new_filename)
            ok == ImageSucceeds(fs, image_file, padding)
        IN  /\ clock' = now
            /\ IF ok
               THEN /\ fs' = RemoveFile(WriteFile(fs, new_filepath, SquareFile),
                                        image_file)
                    /\ filename_mapping' =
                          [n \in DOMAIN filename_mapping \cup {old_filename} |->
                              IF n = old_filename THEN new_filename
                              ELSE filename_mapping[n]]
                    /\ success_count' = success_count + 1
               ELSE UNCHANGED <<fs, filename_mapping, success_count>>
            /\ attempts' = Append(attempts, [file |-> image_file, ok |-> ok])
            /\ idx' = NextIndex(idx, ok)
    /\ UNCHANGED <<script, pc, dir, fs0, padding, add_border,
                   add_cache_buster, create_backup, image_files, backups,
                   csvVars, others>>

\* if filename_mapping: update_csv_file(csv_path, filename_mapping)
ULoopEnd ==
    /\ pc = "u_loop"
    /\ idx > Len(image_files)
    /\ IF filename_mapping # <<>>
       THEN pc' = "csv" /\ cpc' = "read"
       ELSE pc' = "done" /\ cpc' = cpc
    /\ UNCHANGED <<script, dir, fs, fs0, clock, padding, add_border,
                   add_cache_buster, create_backup, image_files, idx,
                   success_count, filename_mapping, attempts, backups,
                   rows, url_column_index, updates_count, cret, others>>

(***************************************************************************)
(* update_csv_file(csv_path, filename_mapping), step by step.              *)
(***************************************************************************)
mainFrame ==
    <<script, dir, fs0, clock, padding, add_border, add_cache_buster,
      create_backup, image_files, idx, success_count, filename_mapping,
      attempts, backups>>

\* rows = list(csv.reader(file)); the URL column is looked for
CsvRead ==
    /\ pc = "csv" /\ cpc = "read"
    /\ rows' = csv_reader(fs[csv_path])
    /\ url_column_index' = FindUrlColumn(IF rows' # <<>> THEN rows'[1] ELSE <<>>)
    /\ cpc' = "located"
    /\ UNCHANGED <<pc, fs, updates_count, cret, mainFrame, others>>

\* if url_column_index is None: the warning, return False
CsvNoUrlColumn ==
    /\ pc = "csv" /\ cpc = "located"
    /\ url_column_index = -1
    /\ cret' = "False"
    /\ cpc' = "returned"
    /\ pc' = "done"
    /\ UNCHANGED <<fs, rows, url_column_index, updates_count, mainFrame, others>>

\* the loop over rows[1:], on the rows in memory
CsvPatch ==
    /\ pc = "csv" /\ cpc = "located"
    /\ url_column_index # -1
    /\ rows' = PatchRows(rows, url_column_index, filename_mapping)
    /\ updates_count' = CountUpdates(rows, url_column_index, filename_mapping)
    /\ cpc' = "patched"
    /\ UNCHANGED <<pc, fs, url_column_index, cret, mainFrame, others>>

\* shutil.copy2(csv_path, backup_path)
CsvBackup ==
    /\ pc = "csv" /\ cpc = "patched"
    /\ backup_path # csv_path
    /\ Dirname(backup_path) = dir
    /\ fs' = CopyFile(fs, csv_path, backup_path)
    /\ cpc' = "backed_up"
    /\ UNCHANGED <<pc, rows, url_column_index, updates_count, cret,
                   mainFrame, others>>

\* copy2 raises (the directory of backup_path does not exist, or the two
\* paths are the same file): caught, return False
CsvBackupFails ==
    /\ pc = "csv" /\ cpc = "patched"
    /\ backup_path = csv_path \/ Dirname(backup_path) # dir
    /\ cret' = "False"
    /\ cpc' = "returned"
    /\ pc' = "done"
    /\ UNCHANGED <<fs, rows, url_column_index, updates_count, mainFrame, others>>

\* csv.writer(file).writerows(rows), lines ended '\r\n'; return True
CsvWrite ==
    /\ pc = "csv" /\ cpc = "backed_up"
    /\ fs' = WriteFile(fs, csv_path, CsvFile(rows, "CRLF"))
    /\ cret' = "True"
    /\ cpc' = "returned"
    /\ pc' = "done"
    /\ UNCHANGED <<rows, url_column_index, updates_count, mainFrame, others>>

(***************************************************************************)
(* make_square.py: main and process_folder.                                *)
(***************************************************************************)
MBorder ==
    /\ pc = "m_border"
    /\ \E response \in YesNoAnswers : add_border' = (response \notin No)
    /\ pc' = "m_padding"
    /\ UNCHANGED <<script, dir, fs, fs0, clock, padding,
                   add_cache_buster, create_backup, image_files, idx,
                   success_count, filename_mapping, attempts, backups,
                   csvVars, others>>

\* the while True loop: a blank answer or an integer >= 0 leaves it
MPadding ==
    /\ pc = "m_padding"
    /\ \E padding_input \in PaddingAnswers :
        \/ padding_input = <<>> /\ padding' = DefaultPadding
        \/ /\ padding_input # <<>>
           /\ IsInt(padding_input)
           /\ Int_(padding_input) >= 0
           /\ padding' = Int_(padding_input)
    /\ pc' = "m_backup"
    /\ UNCHANGED <<script, dir, fs, fs0, clock, add_border,
                   add_cache_buster, create_backup, image_files, idx,
                   success_count, filename_mapping, attempts, backups,
                   csvVars, others>>

\* a negative number, or ValueError caught: a message, and the question again
MPaddingAgain ==
    /\ pc = "m_padding"
    /\ \E padding_input \in PaddingAnswers :
        /\ padding_input # <<>>
        /\ ~IsInt(padding_input) \/ Int_(padding_input) < 0
    /\ pc' = "m_padding"
    /\ UNCHANGED <<script, dir, fs, fs0, clock, padding, add_border,
                   add_cache_buster, create_backup, image_files, idx,
                   success_count, filename_mapping, attempts, backups,
                   csvVars, others>>

MBackup ==
    /\ pc = "m_backup"
    /\ \E response \in YesNoAnswers : create_backup' = (response \in Yes)
    /\ pc' = "m_confirm"
    /\ UNCHANGED <<script, dir, fs, fs0, clock, padding, add_border,
                   add_cache_buster, image_files, idx,
                   success_count, filename_mapping, attempts, backups,
                   csvVars, others>>

MConfirm ==
    /\ pc = "m_confirm"
    /\ \E response \in YesNoAnswers :
        pc' = IF response \in No THEN "cancelled" ELSE "m_glob"
    /\ UNCHANGED <<script, dir, fs, fs0, clock, padding, add_border,
                   add_cache_buster, create_backup, image_files, idx,
                   success_count, filename_mapping, attempts, backups,
                   csvVars, others>>

\* process_folder: the file list, sorted; return when it is empty
process_folder ==
    /\ pc = "m_glob"
    /\ image_files' = Sorted(GlobAll(fs, dir))
    /\ pc' = IF image_files' = <<>> THEN "no_images" ELSE "m_loop"
    /\ idx' = 1
    /\ UNCHANGED <<script, dir, fs, fs0, clock, padding, add_border,
                   add_cache_buster, create_backup,
                   success_count, filename_mapping, attempts, backups,
                   csvVars, others>>

\* one pass of the loop of process_folder: the backup when asked for (its
\* failure is caught), then make_image_square in place
MProcessFile ==
    /\ pc = "m_loop"
    /\ idx <= Len(image_files)
    /\ LET image_file == image_files[idx]
           ok == ImageSucceeds(fs, image_file, padding)
       IN  /\ backups' = IF create_backup /\ fs[image_file].good
                         THEN backups \cup {Basename(image_file)} ELSE backups
           /\ IF ok
              THEN /\ fs' = WriteFile(fs, image_file, SquareFile)
                   /\ success_count' = success_count + 1
              ELSE UNCHANGED <<fs, success_count>>
           /\ attempts' = Append(attempts, [file |-> image_file, ok |-> ok])
           /\ idx' = NextIndex(idx, ok)
    /\ UNCHANGED <<script, pc, dir, fs0, clock, padding, add_border,
                   add_cache_buster, create_backup, image_files,
                   filename_mapping, csvVars, others>>

MLoopEnd ==
    /\ pc = "m_loop"
    /\ idx > Len(image_files)
    /\ pc' = "done"
    /\ UNCHANGED <<script, dir, fs, fs0, clock, padding, add_border,
                   add_cache_buster, create_backup, image_files, idx,
                   success_count, filename_mapping, attempts, backups,
                   csvVars, others>>

update_csv_file ==
    \/ CsvRead
    \/ CsvNoUrlColumn
    \/ CsvPatch
    \/ CsvBackup
    \/ CsvBackupFails
    \/ CsvWrite

Next ==
    \/ UNoCsv
    \/ UCsvFound
    \/ UPadding
    \/ UPaddingValueError
    \/ UBorder
    \/ UCacheBuster
    \/ UConfirm
    \/ UGlob
    \/ UProcessFile
    \/ ULoopEnd
    \/ update_csv_file
    \/ MBorder
    \/ MPadding
    \/ MPaddingAgain
    \/ MBackup
    \/ MConfirm
    \/ process_folder
    \/ MProcessFile
    \/ MLoopEnd

Spec == Init /\ [][Next]_vars

(***************************************************************************)
(* Claims about the pixel functions (checked under SpecPixel).             *)
(***************************************************************************)
SameShape(a, b) ==
    a.width = b.width /\ a.height = b.height /\ b.mode = "RGB"

\* C7: replace_white_background with tolerance t replaces a pixel by the exact
\* target colour if and only if each of its three channels is >= 255 - t
\* (boundary inclusive), and leaves every other pixel unchanged; with t = 10,
\* (255,255,255) and (245,245,245) are replaced and (244,255,255) is not.
C7_ReplaceIffAllChannels ==
    pcall.fn = "replace_white_background" =>
        /\ SameShape(pin, pout)
        /\ \A r \in Rows(pin), c \in Cols(pin) :
            LET old == pin.data[r][c]
                new == pout.data[r][c]
                t == pcall.arg
            IN  /\ (old[1] >= 255 - t /\ old[2] >= 255 - t /\ old[3] >= 255 - t)
                       => new = BackgroundColor
                /\ (old[1] < 255 - t \/ old[2] < 255 - t \/ old[3] < 255 - t)
                       => new = old
                /\ (t = 10 /\ old \in {<<255, 255, 255>>, <<245, 245, 245>>})
                       => new = <<255, 255, 221>>
                /\ (t = 10 /\ old = <<244, 255, 255>>) => new = <<244, 255, 255>>

C7_Witness ==
    /\ pcall = [fn |-> "replace_white_background", arg |-> 10]
    /\ \E r \in Rows(pin), c \in Cols(pin) :
        pin.data[r][c] = <<245, 245, 245>> /\ pout.data[r][c] = BackgroundColor
    /\ \E r \in Rows(pin), c \in Cols(pin) :
        pin.data[r][c] = <<244, 255, 255>> /\ pout.data[r][c] = <<244, 255, 255>>

\* C8 as stated: with the default tolerance of 10 a pixel at (240,240,240) is
\* replaced by the target background colour.
C8_Original ==
    (pcall = [fn |-> "replace_white_background", arg |-> DefaultTolerance]) =>
        \A r \in Rows(pin), c \in Cols(pin) :
            pin.data[r][c] = <<240, 240, 240>> => pout.data[r][c] = BackgroundColor

\* C8 as amended: with the default tolerance of 10 a pixel at (240,240,240) is
\* below the threshold 245 and is left unchanged; it is replaced only when the
\* tolerance is at least 15.
C8_GreyKept ==
    pcall.fn = "replace_white_background" =>
        \A r \in Rows(pin), c \in Cols(pin) :
            pin.data[r][c] = <<240, 240, 240>> =>
                /\ pcall.arg = DefaultTolerance => pout.data[r][c] = <<240, 240, 240>>
                /\ pout.data[r][c] = BackgroundColor <=> pcall.arg >= 15

C8_Witness ==
    /\ pcall = [fn |-> "replace_white_background", arg |-> DefaultTolerance]
    /\ \E r \in Rows(pin), c \in Cols(pin) :
        pin.data[r][c] = <<240, 240, 240>> /\ pout.data[r][c] = <<240, 240, 240>>

\* The four (row, column, channel) places add_cache_buster_pixels is to touch.
Corners(image) ==
    { <<0, 0, 0>>, <<0, image.width - 1, 1>>,
      <<image.height - 1, 0, 2>>, <<image.height - 1, image.width - 1, 0>> }

\* C9: on an image of at least 2x2 pixels add_cache_buster_pixels changes
\* exactly four channel values (red top-left, green top-right, blue
\* bottom-left, red bottom-right), each to old+1 when old < 255 and to 254
\* when old = 255; results stay in 0..255 and nothing else changes.
C9_CornersShiftedByOne ==
    (pcall.fn = "add_cache_buster_pixels" /\ pin.width >= 2 /\ pin.height >= 2) =>
        /\ SameShape(pin, pout)
        /\ \A r \in Rows(pin), c \in Cols(pin), ch \in 0 .. 2 :
            LET old == pin.data[r][c][ch + 1]
                new == pout.data[r][c][ch + 1]
            IN  /\ new \in 0 .. 255
                /\ <<r, c, ch>> \in Corners(pin) =>
                       new = (IF old < 255 THEN old + 1 ELSE 254)
                /\ <<r, c, ch>> \notin Corners(pin) => new = old
        /\ Cardinality({ x \in Rows(pin) \X Cols(pin) \X (0 .. 2) :
               pin.data[x[1]][x[2]][x[3] + 1] # pout.data[x[1]][x[2]][x[3] + 1] }) = 4

C9_Witness ==
    /\ pcall.fn = "add_cache_buster_pixels"
    /\ pin.width >= 2 /\ pin.height >= 2
    /\ pin.data[0][0][1] = 255 /\ pout.data[0][0][1] = 254
    /\ pin.data[pin.height - 1][0][3] = 0 /\ pout.data[pin.height - 1][0][3] = 1

\* C13 as stated: add_border_pattern on an H x W image with border width
\* b >= 0 sets to the pattern colour exactly the pixels whose row is < b or
\* >= H - b or whose column is < b or >= W - b, and leaves every other pixel as
\* it was; with b = 0 nothing changes.
C13_Original ==
    pcall.fn = "add_border_pattern" =>
        /\ SameShape(pin, pout)
        /\ \A r \in Rows(pin), c \in Cols(pin) :
            pout.data[r][c] =
                IF \/ r < pcall.arg \/ r >= pin.height - pcall.arg
                   \/ c < pcall.arg \/ c >= pin.width - pcall.arg
                THEN PatternColor
                ELSE pin.data[r][c]
        /\ pcall.arg = 0 => pout = pin

(***************************************************************************)
(* Claims about make_image_square (checked under SpecSquare).              *)
(***************************************************************************)
\* C1: whenever make_image_square succeeds, the image it writes is exactly
\* final_size x final_size pixels (256 x 256 with the default), whatever the
\* input size and colour mode, the padding >= 0 and the markers applied; a
\* file is written only by a call that succeeds.
C1_OutputIsFinalSize ==
    /\ sret = "True" =>
        /\ sout.format = "JPEG"
        /\ sout.width = sarg.final_size
        /\ sout.height = sarg.final_size
        /\ sarg.final_size = DefaultFinalSize => sout.width = 256 /\ sout.height = 256
    /\ sout # NoFile => sret = "True"

C1_Witness ==
    /\ spc = "saved" /\ sret = "True"
    /\ src.width # src.height
    /\ sarg.add_border /\ sarg.add_cache_buster
    /\ sout.width = 256 /\ sout.height = 256

\* C10: for a source of w x h and padding p, padded_img is (w+2p) x (h+2p)
\* with the source at offset (p, p); when its sides differ the square canvas
\* has side max(w+2p, h+2p) with padded_img at offset
\* (floor((side-(w+2p))/2), floor((side-(h+2p))/2)), and when they are equal
\* the padded image itself is used; every added pixel is the background
\* colour. 100 x 60 with p = 20 gives 140 x 100, then 140 x 140 with 20-pixel
\* background bands above and below.
C10_PadThenSquare ==
    spc \in {"padded", "squared", "resized", "marked", "saved"} =>
        LET p == sarg.padding
            w == src.width
            h == src.height
            side == Max(w + 2 * p, h + 2 * p)
            ox == (side - (w + 2 * p)) \div 2
            oy == (side - (h + 2 * p)) \div 2
        IN  /\ spad.width = w + 2 * p /\ spad.height = h + 2 * p
            /\ \A r \in Rows(spad), c \in Cols(spad) :
                spad.data[r][c] =
                    IF (r - p) \in 0 .. h - 1 /\ (c - p) \in 0 .. w - 1
                    THEN snorm.data[r - p][c - p] ELSE BackgroundColor
            /\ (spc = "squared" /\ spad.width = spad.height) => simg = spad
            /\ (spc = "squared" /\ spad.width # spad.height) =>
                /\ simg.width = side /\ simg.height = side
                /\ \A r \in Rows(simg), c \in Cols(simg) :
                    simg.data[r][c] =
                        IF (r - oy) \in Rows(spad) /\ (c - ox) \in Cols(spad)
                        THEN spad.data[r - oy][c - ox] ELSE BackgroundColor
            /\ (w = 100 /\ h = 60 /\ p = 20) =>
                /\ spad.width = 140 /\ spad.height = 100
                /\ spc = "squared" =>
                    /\ simg.width = 140 /\ simg.height = 140
                    /\ \A r \in (0 .. 19) \cup (120 .. 139), c \in 0 .. 139 :
                        simg.data[r][c] = BackgroundColor
                    /\ \A r \in 20 .. 119 : simg.data[r] = spad.data[r - 20]

C10_Witness ==
    /\ spc = "squared"
    /\ src = ExampleImage /\ sarg.padding = 20
    /\ spad.width = 140 /\ spad.height = 100
    /\ simg.width = 140 /\ simg.height = 140
    /\ simg.data[19][40] = BackgroundColor
    /\ simg.data[20][0] = BackgroundColor
    /\ simg.data[40][20] = <<10, 20, 30>>

(***************************************************************************)
(* Claims about the runs of the two scripts (checked under Spec).          *)
(***************************************************************************)
catalog0 == fs0[csv_path]
HasCatalog == script = "update" /\ Exists(fs0, csv_path)

\* C2 as stated: once the URL column is located, every data row whose cell in
\* that column contains a key of the filename mapping has the old filename
\* substring-replaced by the new one, and is not left referencing the old one.
C2_Original ==
    cret = "True" =>
        \A k \in 2 .. Len(catalog0.rows) :
            Len(catalog0.rows[k]) > url_column_index =>
                \A old \in DOMAIN filename_mapping :
                    LET before == catalog0.rows[k][url_column_index + 1]
                        after == fs[csv_path].rows[k][url_column_index + 1]
                    IN  Contains(before, old) =>
                            /\ after = StrReplace(before, old, filename_mapping[old])
                            /\ ~Contains(after, old)

\* C2 as amended: update_csv_file rewrites exactly the data rows whose cell in
\* the URL column, as csv.reader read it, contains 'images_giant_booster/' and
\* has, after the last occurrence of it, exactly a key of the mapping. In such
\* a cell every occurrence of the old filename is replaced by the new one
\* (a.jpg -> a_123.jpg turns h/images_giant_booster/a.jpg into
\* h/images_giant_booster/a_123.jpg) and the name after the marker is then the
\* new one; the cell of every other row is written back as it was read, also
\* when it contains an old filename.
C2_MarkedRowsPatched ==
    cret = "True" =>
        /\ Len(fs[csv_path].rows) = Len(catalog0.rows)
        /\ \A k \in 2 .. Len(catalog0.rows) :
            Len(catalog0.rows[k]) > url_column_index =>
                LET before == csv_reader(catalog0)[k][url_column_index + 1]
                    after == fs[csv_path].rows[k][url_column_index + 1]
                    name == SplitLast(before, UrlMarker)
                IN  /\ (Contains(before, UrlMarker) /\ name \in DOMAIN filename_mapping) =>
                        /\ after = StrReplace(before, name, filename_mapping[name])
                        /\ SplitLast(after, UrlMarker) = filename_mapping[name]
                        /\ filename_mapping[name] # name
                    /\ ~(Contains(before, UrlMarker) /\ name \in DOMAIN filename_mapping) =>
                        after = before
                    /\ (catalog0.rows[k][url_column_index + 1] = UrlOf(FileA)
                            /\ FileA \in DOMAIN filename_mapping
                            /\ filename_mapping[FileA] = FileA123) =>
                        after = UrlOf(FileA123)

C2_Witness ==
    /\ cret = "True"
    /\ url_column_index = 1
    /\ FileA \in DOMAIN filename_mapping
    /\ filename_mapping[FileA] = FileA123
    /\ catalog0.rows[2][2] = UrlOf(FileA)
    /\ fs[csv_path].rows[2][2] = UrlOf(FileA123)
    /\ fs[csv_path].rows[3][2] = Host \o FileA
    /\ fs[csv_path].rows[8][2] = FileA123 \o <<"/">> \o UrlMarker \o FileA123

\* C3: whenever update_csv_file rewrites the catalog it has first copied it
\* to the sibling backup path: before the write the backup exists and the
\* catalog is still the original, and after the run the backup holds the
\* catalog as it was before patching.
C3_BackupBeforeWrite ==
    HasCatalog =>
        /\ cpc = "backed_up" =>
            /\ Exists(fs, backup_path)
            /\ fs[backup_path] = catalog0
            /\ fs[csv_path] = catalog0
        /\ cret = "True" =>
            /\ Exists(fs, backup_path)
            /\ fs[backup_path] = catalog0
            /\ Dirname(backup_path) = Dirname(csv_path)
            /\ backup_path # csv_path
        /\ fs[csv_path] # catalog0 => cret = "True"

C3_Witness ==
    /\ HasCatalog
    /\ cret = "True"
    /\ fs[csv_path].rows # catalog0.rows
    /\ Exists(fs, backup_path)
    /\ fs[backup_path] = catalog0
    /\ fs[backup_path].rows[2][2] = UrlOf(FileA)

NoUrlHeader(csvrows) ==
    csvrows = <<>> \/ \A i \in 1 .. Len(csvrows[1]) : ~IsUrlHeader(csvrows[1][i])

C5_EveryFileAttemptedOnce ==
    pc \in {"u_loop", "m_loop", "csv", "done"} =>
        /\ idx = 1 => image_files = Sorted(GlobAll(fs0, dir))
        /\ Len(attempts) = idx - 1
        /\ \A k \in 1 .. Len(attempts) : attempts[k].file = image_files[k]
        /\ success_count = Cardinality({ k \in 1 .. Len(attempts) : attempts[k].ok })
        /\ pc \in {"csv", "done"} => Len(attempts) = Len(image_files)

C5_Witness ==
    /\ pc = "done"
    /\ Len(attempts) = 2
    /\ ~attempts[1].ok
    /\ attempts[2].ok
    /\ success_count = 1

\* C6: a padding answer that is no number is asked for again, in every script
\* that asks for the padding: no run ends with an error because of it.
C6_Original == pc # "crashed"

\* The extensions of image_extensions, without the star: '.jpg', ...
Extensions == { Tail(image_extensions[k]) : k \in 1 .. Len(image_extensions) }

\* The files directly in folder whose extension is one of Extensions when the
\* case of its letters is ignored.
ImagesOf(files, folder) ==
    { q \in DOMAIN files :
        /\ Dirname(q) = folder
        /\ Lower(SplitExt(Basename(q))[2]) \in Extensions }

\* C11 as stated: the files a run processes are exactly the files directly in
\* the working directory whose extension is jpg, jpeg, png, bmp, tiff or webp
\* in any case of the letters (.jpg, .JPG, .Jpg), each once in the list; a
\* run that finds no image has none of them in its directory.
C11_Original ==
    /\ (pc \in {"u_loop", "m_loop"} /\ idx = 1) =>
        /\ { image_files[k] : k \in 1 .. Len(image_files) } = ImagesOf(fs0, dir)
        /\ \A j, k \in 1 .. Len(image_files) :
                image_files[j] = image_files[k] => j = k
    /\ pc = "no_images" => ImagesOf(fs0, dir) = {}

\* C12 as stated: update_csv_file writes the rows back in their order with
\* their fields in their order: as many rows, as many fields in each row, the
\* header row as it was, and a cell differs from the original only if it is the
\* URL-column cell of a data row whose filename was found in the mapping.
C12_Original ==
    cret = "True" =>
        /\ Len(fs[csv_path].rows) = Len(catalog0.rows)
        /\ \A k \in 1 .. Len(catalog0.rows) :
            /\ Len(fs[csv_path].rows[k]) = Len(catalog0.rows[k])
            /\ k = 1 => fs[csv_path].rows[k] = catalog0.rows[k]
            /\ \A i \in 1 .. Len(catalog0.rows[k]) :
                fs[csv_path].rows[k][i] # catalog0.rows[k][i] =>
                    /\ k > 1
                    /\ i = url_column_index + 1
                    /\ RowMatches(catalog0.rows[k], url_column_index, filename_mapping)

\* The files make_image_square returned True for, so far, by their names.
Renamed == { Basename(attempts[k].file) : k \in { j \in 1 .. Len(attempts) : attempts[j].ok } }

\* C14 as stated: in the rename-and-patch run the mapping holds, at every
\* point, exactly one entry old -> new for each file processed with success so
\* far (so it only grows), new being the old name with a time of the run; at
\* the end of the loop, for every entry the old file is gone and the new file
\* is there, and a file whose processing failed is still there under its name,
\* as it was, with no entry.
C14_Original ==
    script = "update" =>
        /\ DOMAIN filename_mapping = Renamed
        /\ \A old \in DOMAIN filename_mapping :
            \E t \in StartTime .. StartTime + MaxTicks :
                filename_mapping[old] = generate_new_filename(old, t)
        /\ pc \in {"csv", "done"} =>
            /\ \A old \in DOMAIN filename_mapping :
                /\ ~Exists(fs, Join(dir, old))
                /\ Exists(fs, Join(dir, filename_mapping[old]))
            /\ \A k \in 1 .. Len(attempts) :
                ~attempts[k].ok =>
                    /\ Exists(fs, attempts[k].file)
                    /\ fs[attempts[k].file] = fs0[attempts[k].file]
                    /\ Basename(attempts[k].file) \notin DOMAIN filename_mapping

=============================================================================
